---- MODULE Spec2Model ----
(***************************************************************************)
(* crc-forge: GF(2) polynomial arithmetic (src/src/math.rs) and the CRC32  *)
(* engine with its forgery algorithms (src/src/lib.rs).                    *)
(*                                                                         *)
(* An unsigned integer of the program (u8, u32, u64, u128) is modelled as  *)
(* the set of the indices of its set bits: bit i of the integer is set iff *)
(* i is in the set.  A Polynomial<T> is its stored (reflected) integer, so *)
(* index i of a W-bit polynomial holds the coefficient of X^(W-1-i).       *)
(***************************************************************************)
EXTENDS Integers, Sequences, FiniteSets, TLC

(***************************************************************************)
(* Integer helpers                                                         *)
(***************************************************************************)

\* The bit set of a small natural number (below 2^16).
Bits(n) == {i \in 0..15 : (n \div (2 ^ i)) % 2 = 1}

\* The 32-bit integer with high half hi and low half lo.
U32(hi, lo) == Bits(lo) \cup {i + 16 : i \in Bits(hi)}

\* The weight of bit i in a bit set
BitVal(bits, i) == IF i \in bits THEN 2 ^ i ELSE 0

\* The natural number held in the low 8 bits of a bit set.
ByteVal(bits) ==
    BitVal(bits, 0) + BitVal(bits, 1) + BitVal(bits, 2) + BitVal(bits, 3)
        + BitVal(bits, 4) + BitVal(bits, 5) + BitVal(bits, 6) + BitVal(bits, 7)

Min(a, b) == IF a <= b THEN a ELSE b

\* n >> k
Shr(n, k) == {i - k : i \in {j \in n : j >= k}}

\* n << k in a w-bit integer
Shl(n, k, w) == {i + k : i \in {j \in n : j + k < w}}

\* n ^ m
Xor(n, m) == {i \in n \cup m : ~(i \in n /\ i \in m)}

(***************************************************************************)
(* Results                                                                 *)
(***************************************************************************)

Ok(v) == [tag |-> "Ok", val |-> v, err |-> "none"]

Err(e) == [tag |-> "Err", val |-> {}, err |-> e]

\* A panic: a failed unwrap()
Panic == [tag |-> "Panic", val |-> {}, err |-> "unwrap"]

IsOk(r) == r.tag = "Ok"

\* r.unwrap()
Unwrap(r) == IF r.tag = "Ok" THEN r ELSE Panic

\* `?` and the sequencing of a computation after a fallible one
Then(r, F(_)) == IF r.tag = "Ok" THEN F(r.val) ELSE r

(***************************************************************************)
(* math.rs: representation and width conversions                           *)
(***************************************************************************)

reverse_u32(n) == {31 - i : i \in n}

reverse_u64(n) == {63 - i : i \in n}

reverse_u128(n) == {127 - i : i \in n}

\* Polynomial::from(PolynomialRepr::Normal(val)), one per width
FromNormal32(val) == reverse_u32(val)

FromNormal64(val) == reverse_u64(val)

FromNormal128(val) == reverse_u128(val)

\* Polynomial::from(PolynomialRepr::Reverse(val))
FromReverse(val) == val

TryFrom128to64(value) ==
    IF \E i \in value : i < 64
    THEN Err("OverflowError")
    ELSE Ok(Shr(value, 64))

\* The narrowing of 128 to 32 bits with the mask of the narrowing to 64 bits
TryFrom128to32_mask64(value) ==
    IF \E i \in value : i < 64
    THEN Err("OverflowError")
    ELSE Ok(Shr(value, 96))

TryFrom128to32(value) ==
    IF \E i \in value : i < 96
    THEN Err("OverflowError")
    ELSE Ok(Shr(value, 96))

TryFrom64to32(value) ==
    IF \E i \in value : i < 32
    THEN Err("OverflowError")
    ELSE Ok(Shr(value, 32))

From64to128(value) == Shl(value, 64, 128)

From32to64(value) == Shl(value, 32, 64)

From32to128(value) == From64to128(From32to64(value))

\* Polynomial::<to>::try_from(value) for a Polynomial of `from` bits
TryFromWidth(value, from, to) ==
    IF from = 128 /\ to = 64 THEN TryFrom128to64(value)
    ELSE IF from = 128 /\ to = 32 THEN TryFrom128to32(value)
    ELSE TryFrom64to32(value)

\* Polynomial::<to>::from(value) for a Polynomial of `from` bits
FromWidth(value, from, to) ==
    IF from = 64 /\ to = 128 THEN From64to128(value)
    ELSE IF from = 32 /\ to = 128 THEN From32to128(value)
    ELSE From32to64(value)

\* Polynomial addition
Add(a, b) == Xor(a, b)

(***************************************************************************)
(* math.rs: degree                                                         *)
(***************************************************************************)

\* Polynomial<T>::deg for a polynomial of w bits: the loop returns maxdeg - i
\* for the lowest set bit i, and 0 when no bit is set.
Deg(self, w) ==
    LET maxdeg == w - 1
    IN  IF self = {} THEN 0
        ELSE maxdeg - (CHOOSE i \in self : \A j \in self : i <= j)

(***************************************************************************)
(* math.rs: multiplication                                                 *)
(***************************************************************************)

\* A loop `for _ in 0..n` is followed pass by pass, a quarter of the passes at
\* a time: the same passes in the same order.  TLC evaluates a definition only
\* when it is used; the tests s = s make it compute each part before the next.

\* A pass of the loop of mul that shifts rhs by 63 - i in place of 64 - i
MulStep_short_shift(st, rhs_bits) ==
    [i |-> st.i - 1,
     self_bits |-> Shr(st.self_bits, 1),
     res_bits |-> IF 0 \in st.self_bits
                  THEN Xor(st.res_bits, Shl(rhs_bits, 63 - st.i, 128))
                  ELSE st.res_bits]

\* One pass of the loop of mul; st holds the locals i, self_bits and res_bits.
MulStep(st, rhs_bits) ==
    [i |-> st.i - 1,
     self_bits |-> Shr(st.self_bits, 1),
     res_bits |-> IF 0 \in st.self_bits
                  THEN Xor(st.res_bits, Shl(rhs_bits, 64 - st.i, 128))
                  ELSE st.res_bits]

RECURSIVE MulLoop(_, _, _)
MulLoop(n, st, rhs_bits) ==
    IF n <= 0 THEN st
    ELSE IF n = 1 THEN MulStep(st, rhs_bits)
    ELSE LET k == (n + 3) \div 4
             s1 == MulLoop(k, st, rhs_bits)
             s2 == MulLoop(Min(k, n - k), s1, rhs_bits)
             s3 == MulLoop(Min(k, n - 2 * k), s2, rhs_bits)
         IN  IF s1 = s1 /\ s2 = s2 /\ s3 = s3 THEN MulLoop(n - 3 * k, s3, rhs_bits) ELSE st

\* Mul<T> for Polynomial<u64>, rhs already converted: u64 * u64 -> u128
Mul64(self, rhs) ==
    MulLoop(64, [i |-> 63, self_bits |-> self, res_bits |-> {}], rhs).res_bits

\* Mul<Polynomial<u32>> for Polynomial<u32>: u32 * u32 -> u64, unwrapped
Mul32(self, rhs) == Unwrap(TryFrom128to64(Mul64(From32to64(self), From32to64(rhs))))

\* Mul<Polynomial<u64>> for Polynomial<u32>: u32 * u64 -> u128
Mul32by64(self, rhs) == Mul64(From32to64(self), rhs)

\* Mul<T> for Polynomial<u64> with T = Polynomial<u32>: u64 * u32 -> u128
Mul64by32(self, rhs) == Mul64(self, From32to64(rhs))

\* self * rhs for operands of sw and rw bits, as a Result
MulWidth(self, rhs, sw, rw) ==
    IF sw = 32 /\ rw = 32 THEN Mul32(self, rhs)
    ELSE IF sw = 32 THEN Ok(Mul32by64(self, rhs))
    ELSE IF rw = 32 THEN Ok(Mul64by32(self, rhs))
    ELSE Ok(Mul64(self, rhs))

(***************************************************************************)
(* math.rs: quotient and remainder                                         *)
(***************************************************************************)

\* One pass of the loop of div; st holds the locals res and self_bits.
DivStep(st, rhs_bits) ==
    IF 0 \in st.self_bits
    THEN [res |-> Xor(Shl(st.res, 1, 128), {0}),
          self_bits |-> Xor(Shr(st.self_bits, 1), rhs_bits)]
    ELSE [res |-> Shl(st.res, 1, 128), self_bits |-> Shr(st.self_bits, 1)]

RECURSIVE DivLoop(_, _, _)
DivLoop(n, st, rhs_bits) ==
    IF n <= 0 THEN st
    ELSE IF n = 1 THEN DivStep(st, rhs_bits)
    ELSE LET k == (n + 3) \div 4
             s1 == DivLoop(k, st, rhs_bits)
             s2 == DivLoop(Min(k, n - k), s1, rhs_bits)
             s3 == DivLoop(Min(k, n - 2 * k), s2, rhs_bits)
         IN  IF s1 = s1 /\ s2 = s2 /\ s3 = s3 THEN DivLoop(n - 3 * k, s3, rhs_bits) ELSE st

\* div with the quotient taken to be in reverse representation
Div128_reflected(self, rhs) ==
    LET rhs_deg == Deg(rhs, 128)
        steps == 128 - rhs_deg
        rhs_bits == Shr(rhs, steps % 128)
    IN  FromReverse(DivLoop(steps, [res |-> {}, self_bits |-> self], rhs_bits).res)

\* Div<T> for Polynomial<u128>, rhs already converted
Div128(self, rhs) ==
    LET rhs_deg == Deg(rhs, 128)
        steps == 128 - rhs_deg
        rhs_bits == Shr(rhs, steps % 128)
    IN  FromNormal128(DivLoop(steps, [res |-> {}, self_bits |-> self], rhs_bits).res)

\* Div<T> for Polynomial<u64>, rhs already converted to Polynomial<u128>
Div64(self, rhs) == Unwrap(TryFrom128to64(Div128(From64to128(self), rhs)))

\* One pass of the loop of rem
RemStep(self_bits, modulo_bits) ==
    IF 0 \in self_bits
    THEN Xor(Shr(self_bits, 1), modulo_bits)
    ELSE Shr(self_bits, 1)

RECURSIVE RemLoop(_, _, _)
RemLoop(n, st, modulo_bits) ==
    IF n <= 0 THEN st
    ELSE IF n = 1 THEN RemStep(st, modulo_bits)
    ELSE LET k == (n + 3) \div 4
             s1 == RemLoop(k, st, modulo_bits)
             s2 == RemLoop(Min(k, n - k), s1, modulo_bits)
             s3 == RemLoop(Min(k, n - 2 * k), s2, modulo_bits)
         IN  IF s1 = s1 /\ s2 = s2 /\ s3 = s3
             THEN RemLoop(n - 3 * k, s3, modulo_bits)
             ELSE st

\* Rem<Polynomial<u128>> for Polynomial<u128>
Rem128(self, modulo) ==
    LET modulo_deg == Deg(modulo, 128)
        steps == 128 - modulo_deg
        modulo_bits == Shr(modulo, steps % 128)
    IN  Shl(RemLoop(steps, self, modulo_bits), steps % 128, 128)

\* Rem<Polynomial<u64>> for Polynomial<u128>
Rem128by64(self, modulo) == Unwrap(TryFrom128to64(Rem128(self, From64to128(modulo))))

\* Rem<Polynomial<u64>> for Polynomial<u64>
Rem64(self, modulo) ==
    Unwrap(TryFrom128to64(Rem128(From64to128(self), From64to128(modulo))))

\* Rem<Polynomial<u32>> for Polynomial<u64>
Rem64by32(self, modulo) ==
    Unwrap(TryFrom128to32(Rem128(From64to128(self), From32to128(modulo))))

(***************************************************************************)
(* math.rs: modular inverse                                                *)
(***************************************************************************)

\* The most passes of the loop of inv_mod that are followed
MaxPasses == 128

\* The loop of inv_mod keeps the locals a, b, vn, vn_1 in st and, in st.out,
\* what it has returned: NoReturn while it is still running.  st.degs collects
\* deg() of the modulus of every / and % the loop has evaluated.
NoReturn == [tag |-> "None", val |-> {}, err |-> "none"]

\* A pass that keeps the old vn in place of `vn = tmp`
InvModPass_stale_vn(st, p) ==
    IF st.out # NoReturn THEN st
    ELSE IF st.b = {} THEN [st EXCEPT !.out = Err("NonInvertibleError")]
    ELSE
      LET one == FromNormal64({0})
          q == Div64(st.a, From64to128(st.b))
          r == Rem64(st.a, st.b)
          by_b == st.degs \cup {Deg(From64to128(st.b), 128)}
          by_p == by_b \cup {Deg(From64to128(p), 128)}
      IN  IF ~IsOk(q) \/ ~IsOk(r) THEN [st EXCEPT !.out = Panic, !.degs = by_b]
          ELSE
            LET prod == Rem128by64(Mul64(st.vn_1, q.val), p)
            IN  IF ~IsOk(prod) THEN [st EXCEPT !.out = Panic, !.degs = by_p]
                ELSE IF r.val = one
                THEN [st EXCEPT !.out = Rem64(Add(st.vn, prod.val), p), !.degs = by_p]
                ELSE [a |-> st.b, b |-> r.val,
                      vn |-> st.vn, vn_1 |-> Add(st.vn, prod.val), out |-> st.out,
                      degs |-> by_p]

\* A pass that refuses a constant b as it refuses b = 0
InvModPass_constant_refused(st, p) ==
    IF st.out # NoReturn THEN st
    ELSE IF st.b = {} \/ Deg(st.b, 64) = 0 THEN [st EXCEPT !.out = Err("NonInvertibleError")]
    ELSE
      LET one == FromNormal64({0})
          q == Div64(st.a, From64to128(st.b))
          r == Rem64(st.a, st.b)
          by_b == st.degs \cup {Deg(From64to128(st.b), 128)}
          by_p == by_b \cup {Deg(From64to128(p), 128)}
      IN  IF ~IsOk(q) \/ ~IsOk(r) THEN [st EXCEPT !.out = Panic, !.degs = by_b]
          ELSE
            LET prod == Rem128by64(Mul64(st.vn_1, q.val), p)
            IN  IF ~IsOk(prod) THEN [st EXCEPT !.out = Panic, !.degs = by_p]
                ELSE IF r.val = one
                THEN [st EXCEPT !.out = Rem64(Add(st.vn, prod.val), p), !.degs = by_p]
                ELSE [a |-> st.b, b |-> r.val,
                      vn |-> st.vn_1, vn_1 |-> Add(st.vn, prod.val), out |-> st.out,
                      degs |-> by_p]

\* A pass that leaves out `b = r`
InvModPass_keeps_b(st, p) ==
    IF st.out # NoReturn THEN st
    ELSE IF st.b = {} THEN [st EXCEPT !.out = Err("NonInvertibleError")]
    ELSE
      LET one == FromNormal64({0})
          q == Div64(st.a, From64to128(st.b))
          r == Rem64(st.a, st.b)
          by_b == st.degs \cup {Deg(From64to128(st.b), 128)}
          by_p == by_b \cup {Deg(From64to128(p), 128)}
      IN  IF ~IsOk(q) \/ ~IsOk(r) THEN [st EXCEPT !.out = Panic, !.degs = by_b]
          ELSE
            LET prod == Rem128by64(Mul64(st.vn_1, q.val), p)
            IN  IF ~IsOk(prod) THEN [st EXCEPT !.out = Panic, !.degs = by_p]
                ELSE IF r.val = one
                THEN [st EXCEPT !.out = Rem64(Add(st.vn, prod.val), p), !.degs = by_p]
                ELSE [a |-> st.b, b |-> st.b,
                      vn |-> st.vn_1, vn_1 |-> Add(st.vn, prod.val), out |-> st.out,
                      degs |-> by_p]

\* One pass of the loop of inv_mod
InvModPass(st, p) ==
    IF st.out # NoReturn THEN st
    ELSE IF st.b = {} THEN [st EXCEPT !.out = Err("NonInvertibleError")]
    ELSE
      LET one == FromNormal64({0})
          q == Div64(st.a, From64to128(st.b))
          r == Rem64(st.a, st.b)
          by_b == st.degs \cup {Deg(From64to128(st.b), 128)}
          by_p == by_b \cup {Deg(From64to128(p), 128)}
      IN  IF ~IsOk(q) \/ ~IsOk(r) THEN [st EXCEPT !.out = Panic, !.degs = by_b]
          ELSE
            LET prod == Rem128by64(Mul64(st.vn_1, q.val), p)
            IN  IF ~IsOk(prod) THEN [st EXCEPT !.out = Panic, !.degs = by_p]
                ELSE IF r.val = one
                THEN [st EXCEPT !.out = Rem64(Add(st.vn, prod.val), p), !.degs = by_p]
                ELSE [a |-> st.b, b |-> r.val,
                      vn |-> st.vn_1, vn_1 |-> Add(st.vn, prod.val), out |-> st.out,
                      degs |-> by_p]

\* The loop of inv_mod, up to n passes; a pass after a return changes nothing.
RECURSIVE InvModLoop(_, _, _)
InvModLoop(n, st, p) ==
    IF n <= 0 THEN st
    ELSE IF n = 1 THEN InvModPass(st, p)
    ELSE LET k == (n + 3) \div 4
             s1 == InvModLoop(k, st, p)
             s2 == InvModLoop(Min(k, n - k), s1, p)
             s3 == InvModLoop(Min(k, n - 2 * k), s2, p)
         IN  IF s1 = s1 /\ s2 = s2 /\ s3 = s3 THEN InvModLoop(n - 3 * k, s3, p) ELSE st

\* The locals of inv_mod when its loop is entered, b being self % p
InvModEntry(p, b) ==
    [a |-> p, b |-> b, vn |-> FromNormal64({}), vn_1 |-> FromNormal64({0}),
     out |-> NoReturn, degs |-> {Deg(From64to128(p), 128)}]

\* Polynomial<u64>::inv_mod
inv_mod(self, p) ==
    Then(Rem64(self, p), LAMBDA b : InvModLoop(MaxPasses, InvModEntry(p, b), p).out)

\* deg() of the modulus of every / and % that inv_mod evaluates
inv_mod_moduli(self, p) ==
    LET b == Rem64(self, p)
    IN  IF IsOk(b) THEN InvModLoop(MaxPasses, InvModEntry(p, b.val), p).degs
        ELSE {Deg(From64to128(p), 128)}

\* Polynomial<u64>::pow(exp, modulo): self^exp mod modulo.  Its code is not in
\* the sources; it is modelled from its use (lib.rs:181-182) and its description.
PowStep(acc, self, modulo) ==
    Then(acc, LAMBDA a : Rem128by64(Mul64(a, self), modulo))

RECURSIVE PowLoop(_, _, _, _)
PowLoop(n, st, self, modulo) ==
    IF n <= 0 THEN st
    ELSE IF n = 1 THEN PowStep(st, self, modulo)
    ELSE LET k == (n + 3) \div 4
             s1 == PowLoop(k, st, self, modulo)
             s2 == PowLoop(Min(k, n - k), s1, self, modulo)
             s3 == PowLoop(Min(k, n - 2 * k), s2, self, modulo)
         IN  IF s1 = s1 /\ s2 = s2 /\ s3 = s3 THEN PowLoop(n - 3 * k, s3, self, modulo) ELSE st

pow(self, exp, modulo) == PowLoop(exp, Rem64(FromNormal64({0}), modulo), self, modulo)

\* deg() of the modulus of every % that pow evaluates
pow_moduli(modulo) == {Deg(From64to128(modulo), 128)}

(***************************************************************************)
(* lib.rs: the CRC32 engine                                                *)
(***************************************************************************)

CRC32_LOOKUP_SIZE == 256

\* CRC32Properties::default()
DefaultProps ==
    [g |-> U32(\H04C1, \H1DB7), i |-> U32(\HFFFF, \HFFFF), f |-> U32(\HFFFF, \HFFFF)]

\* One pass of the loop of precompute_table
PrecomputeStep(register, g) ==
    IF 0 \in register THEN Xor(Shr(register, 1), g) ELSE Shr(register, 1)

RECURSIVE PrecomputeLoop(_, _, _)
PrecomputeLoop(n, st, g) ==
    IF n <= 0 THEN st
    ELSE IF n = 1 THEN PrecomputeStep(st, g)
    ELSE LET k == (n + 3) \div 4
             s1 == PrecomputeLoop(k, st, g)
             s2 == PrecomputeLoop(Min(k, n - k), s1, g)
             s3 == PrecomputeLoop(Min(k, n - 2 * k), s2, g)
         IN  IF s1 = s1 /\ s2 = s2 /\ s3 = s3 THEN PrecomputeLoop(n - 3 * k, s3, g) ELSE st

\* precompute_table with one pass too few
precompute_table_seven_passes(index, g) == PrecomputeLoop(7, Bits(index), g)

\* precompute_table: register = index, then the 8 passes of the loop
precompute_table(index, g) == PrecomputeLoop(8, Bits(index), g)

\* new with the term X^32 left out of the full generator
new_without_xn(props) ==
    LET table == [i \in 0..(CRC32_LOOKUP_SIZE - 1) |->
                     precompute_table(i, reverse_u32(props.g))]
        xn == FromNormal64({32})
        g == From32to64(FromNormal32(props.g))
    IN  Then(inv_mod(xn, g),
             LAMBDA inv : Then(TryFrom64to32(inv),
                 LAMBDA xn_inv : Ok([props |-> props, g |-> g,
                                     table |-> table, xn_inv |-> xn_inv])))

\* CRC32::new: Ok(engine), or the error of inv_mod or of the narrowing
new(props) ==
    LET table == [i \in 0..(CRC32_LOOKUP_SIZE - 1) |->
                     precompute_table(i, reverse_u32(props.g))]
        xn == FromNormal64({32})
        g == Add(xn, From32to64(FromNormal32(props.g)))
    IN  Then(inv_mod(xn, g),
             LAMBDA inv : Then(TryFrom64to32(inv),
                 LAMBDA xn_inv : Ok([props |-> props, g |-> g,
                                     table |-> table, xn_inv |-> xn_inv])))

\* step that shifts the register and leaves the next byte out
step_without_next_byte(self, register, next_byte) ==
    LET index == ByteVal(register)
        mask == self.table[index]
    IN  Xor(Shr(register, 8), mask)

\* deg() of the modulus of every / and % that CRC32::new evaluates
new_moduli(props) ==
    LET xn == FromNormal64({32})
        g == Add(xn, From32to64(FromNormal32(props.g)))
    IN  inv_mod_moduli(xn, g)

\* CRC32::step
step(self, register, next_byte) ==
    LET index == ByteVal(register)
        mask == self.table[index]
    IN  Xor(Shr(register, 8) \cup Shl(Bits(next_byte), 24, 32), mask)

\* A pass of the first loop that lets the register unshifted
FillStep_without_shift(st) ==
    IF st.data = <<>> THEN st
    ELSE [reg |-> st.reg \cup Shl(Bits(Head(st.data)), 24, 32),
          data |-> Tail(st.data)]

\* The first loop of fast_rem: up to 4 bytes populate the register.
FillStep(st) ==
    IF st.data = <<>> THEN st
    ELSE [reg |-> Shr(st.reg, 8) \cup Shl(Bits(Head(st.data)), 24, 32),
          data |-> Tail(st.data)]

RECURSIVE FillLoop(_, _)
FillLoop(n, st) ==
    IF n <= 0 THEN st
    ELSE IF n = 1 THEN FillStep(st)
    ELSE LET k == (n + 3) \div 4
             s1 == FillLoop(k, st)
             s2 == FillLoop(Min(k, n - k), s1)
             s3 == FillLoop(Min(k, n - 2 * k), s2)
         IN  IF s1 = s1 /\ s2 = s2 /\ s3 = s3 THEN FillLoop(n - 3 * k, s3) ELSE st

\* The second loop of fast_rem: one step per byte left; st holds reg and data.
NextStep(st, self) ==
    [reg |-> step(self, st.reg, Head(st.data)), data |-> Tail(st.data)]

RECURSIVE StepLoop(_, _, _)
StepLoop(n, st, self) ==
    IF n <= 0 THEN st
    ELSE IF n = 1 THEN NextStep(st, self)
    ELSE LET k == (n + 3) \div 4
             s1 == StepLoop(k, st, self)
             s2 == StepLoop(Min(k, n - k), s1, self)
             s3 == StepLoop(Min(k, n - 2 * k), s2, self)
         IN  IF s1 = s1 /\ s2 = s2 /\ s3 = s3 THEN StepLoop(n - 3 * k, s3, self) ELSE st

\* fast_rem with the initial register value left out
fast_rem_without_register(self, data, register) ==
    LET filled == FillLoop(4, [reg |-> {}, data |-> data])
    IN  StepLoop(Len(filled.data), [reg |-> filled.reg, data |-> filled.data], self).reg

\* fast_rem that stops one byte before the end of data
fast_rem_one_step_short(self, data, register) ==
    LET filled == FillLoop(4, [reg |-> {}, data |-> data])
        reg == Xor(filled.reg, register)
    IN  StepLoop(Len(filled.data) - 1, [reg |-> reg, data |-> filled.data], self).reg

\* CRC32::fast_rem
fast_rem(self, data, register) ==
    LET filled == FillLoop(4, [reg |-> {}, data |-> data])
        reg == Xor(filled.reg, register)
    IN  StepLoop(Len(filled.data), [reg |-> reg, data |-> filled.data], self).reg

\* checksum without the four zero bytes that follow the data
checksum_unpadded(self, data) ==
    Xor(fast_rem(self, data, self.props.i), self.props.f)

\* CRC32::checksum
checksum(self, data) ==
    Xor(fast_rem(self, data \o <<0, 0, 0, 0>>, self.props.i), self.props.f)

\* CRC32::generator_remainder, p already converted to Polynomial<u128>
generator_remainder(self, p) ==
    Then(Rem128by64(p, self.g), LAMBDA r : Unwrap(TryFrom64to32(r)))

\* deg() of the modulus of the % of generator_remainder
generator_remainder_moduli(self) == {Deg(From64to128(self.g), 128)}

\* compute_suffix_polynomial with the final xor left out of the target
compute_suffix_polynomial_plain(self, data, target_crc) ==
    LET c == FromReverse(checksum(self, data))
        cp == FromReverse(target_crc)
        f == FromReverse(self.props.f)
    IN  Then(Mul32(cp, self.xn_inv),
             LAMBDA prod : Then(generator_remainder(self, From64to128(prod)),
                 LAMBDA res : Ok(Add(Add(res, c), f))))

\* CRC32::compute_suffix_polynomial
compute_suffix_polynomial(self, data, target_crc) ==
    LET c == FromReverse(checksum(self, data))
        cp == FromReverse(target_crc)
        f == FromReverse(self.props.f)
    IN  Then(Mul32(Add(cp, f), self.xn_inv),
             LAMBDA prod : Then(generator_remainder(self, From64to128(prod)),
                 LAMBDA res : Ok(Add(Add(res, c), f))))

\* The bytes of a u32 from the most significant one
to_be_bytes(v) == [k \in 1..4 |-> ByteVal(Shr(v, 8 * (4 - k)))]

\* u32::to_le_bytes
to_le_bytes(v) == [k \in 1..4 |-> ByteVal(Shr(v, 8 * (k - 1)))]

\* CRC32::compute_suffix
compute_suffix(self, data, target_crc) ==
    Then(compute_suffix_polynomial(self, data, target_crc),
         LAMBDA s : Ok(to_le_bytes(s)))

\* compute_inserted_polynomial with the term X^32 * suffix left out
compute_inserted_polynomial_at_unshifted(self, data, offset, end_offset, target_crc) ==
    LET suffix == SubSeq(data, offset + 1, Len(data))
        suffix_poly == FromReverse(fast_rem(self, suffix, {}))
        xm == Then(pow(FromNormal64({1}), 8 * end_offset, self.g),
                   LAMBDA x : Unwrap(TryFrom64to32(x)))
        xm_inv == Then(Unwrap(inv_mod(From32to64(xm.val), self.g)),
                       LAMBDA v : Unwrap(TryFrom64to32(v)))
        inserted0 == compute_suffix_polynomial(self, data, target_crc)
        prod == Mul32(Add(inserted0.val, suffix_poly), xm_inv.val)
    IN  IF ~IsOk(xm) THEN xm
        ELSE IF ~IsOk(xm_inv) THEN xm_inv
        ELSE IF ~IsOk(inserted0) THEN inserted0
        ELSE IF ~IsOk(prod) THEN prod
        ELSE generator_remainder(self, From64to128(prod.val))

\* CRC32::compute_inserted_polynomial after the split point is known: the
\* suffix is data.skip(offset), and end_offset bytes come after the patch.
compute_inserted_polynomial_at(self, data, offset, end_offset, target_crc) ==
    LET suffix == SubSeq(data, offset + 1, Len(data))
        suffix_poly == FromReverse(fast_rem(self, suffix, {}))
        xm == Then(pow(FromNormal64({1}), 8 * end_offset, self.g),
                   LAMBDA x : Unwrap(TryFrom64to32(x)))
        xm_inv == Then(Unwrap(inv_mod(From32to64(xm.val), self.g)),
                       LAMBDA v : Unwrap(TryFrom64to32(v)))
        inserted0 == compute_suffix_polynomial(self, data, target_crc)
        sx == generator_remainder(self, Mul64(FromNormal64({32}), From32to64(suffix_poly)))
        prod == Mul32(Add(Add(inserted0.val, suffix_poly), sx.val), xm_inv.val)
    IN  IF ~IsOk(xm) THEN xm
        ELSE IF ~IsOk(xm_inv) THEN xm_inv
        ELSE IF ~IsOk(inserted0) THEN inserted0
        ELSE IF ~IsOk(sx) THEN sx
        ELSE IF ~IsOk(prod) THEN prod
        ELSE generator_remainder(self, From64to128(prod.val))

\* The split point taken with saturating_sub in place of checked_sub
compute_inserted_polynomial_saturating(self, data, offset, target_crc) ==
    compute_inserted_polynomial_at(self, data, offset,
        IF offset > Len(data) THEN 0 ELSE Len(data) - offset, target_crc)

\* The last split point refused
compute_inserted_polynomial_strict(self, data, offset, target_crc) ==
    IF offset >= Len(data) THEN Err("OverflowError")
    ELSE compute_inserted_polynomial_at(self, data, offset, Len(data) - offset, target_crc)

\* offset counted from the end of data: offset bytes come after the patch
compute_inserted_polynomial_from_end(self, data, offset, target_crc) ==
    IF offset > Len(data) THEN Err("OverflowError")
    ELSE compute_inserted_polynomial_at(self, data, Len(data) - offset, offset, target_crc)

\* One byte more counted after the patch: 8 * (end_offset + 1) as the exponent
compute_inserted_polynomial_one_byte_more(self, data, offset, target_crc) ==
    IF offset > Len(data) THEN Err("OverflowError")
    ELSE compute_inserted_polynomial_at(self, data, offset, Len(data) - offset + 1,
                                        target_crc)

\* CRC32::compute_inserted_polynomial
compute_inserted_polynomial(self, data, offset, target_crc) ==
    IF offset > Len(data) THEN Err("OverflowError")
    ELSE compute_inserted_polynomial_at(self, data, offset, Len(data) - offset, target_crc)

\* CRC32::compute_inserted
compute_inserted(self, data, offset, target_crc) ==
    Then(compute_inserted_polynomial(self, data, offset, target_crc),
         LAMBDA p : Ok(to_le_bytes(p)))

\* deg() of the modulus of every / and % that compute_inserted_polynomial
\* evaluates: in pow, in inv_mod and in generator_remainder
compute_inserted_moduli(self, data, offset) ==
    IF offset > Len(data) THEN {}
    ELSE LET end_offset == Len(data) - offset
             xm == Then(pow(FromNormal64({1}), 8 * end_offset, self.g),
                        LAMBDA x : Unwrap(TryFrom64to32(x)))
         IN  pow_moduli(self.g)
                 \cup (IF IsOk(xm) THEN inv_mod_moduli(From32to64(xm.val), self.g)
                       ELSE {})
                 \cup generator_remainder_moduli(self)

\* The polynomial arithmetic compute_inserted_polynomial goes through, in order
compute_inserted_ops(data, offset) ==
    IF offset > Len(data) THEN <<>>
    ELSE <<"fast_rem", "pow", "inv_mod", "checksum", "mul", "rem", "mul", "rem",
           "mul", "rem">>

(***************************************************************************)
(* The program as a state machine: a caller builds one engine and then     *)
(* calls its operations, one call at a time.                               *)
(***************************************************************************)

VARIABLES
    engine,   \* the CRC32 value the caller holds: NoEngine, or Ok(engine)
    pc,       \* "idle": no call in progress; "returned": the last call returned
    call,     \* the last call: its name and arguments
    ret,      \* what the last call returned
    ops,      \* the polynomial arithmetic the last call went through
    moduli    \* deg() of the modulus of every / and % of the last call

vars == <<engine, pc, call, ret, ops, moduli>>

NoEngine == [tag |-> "None", val |-> {}, err |-> "none"]

NoCall == [op |-> "none"]

NoRet == [tag |-> "None", val |-> {}, err |-> "none"]

\* Bounds of the model
MaxLen == 3

MaxOver == 1

\* The bytes the enumerated data is made of
Alphabet == {0, 100}

RECURSIVE SeqsUpTo(_)
SeqsUpTo(n) ==
    IF n = 0 THEN {<<>>}
    ELSE LET shorter == SeqsUpTo(n - 1)
         IN  shorter \cup {Append(d, b) : d \in {x \in shorter : Len(x) = n - 1},
                                            b \in Alphabet}

\* "a", "hello, world!" and "lorem ipsum"
LetterA == <<97>>

Hello == <<104, 101, 108, 108, 111, 44, 32, 119, 111, 114, 108, 100, 33>>

Lorem == <<108, 111, 114, 101, 109, 32, 105, 112, 115, 117, 109>>

Data == SeqsUpTo(MaxLen) \cup {LetterA, Hello, Lorem}

Targets == {U32(\H4242, \H4242), {}}

\* A second parameter set: the CRC-32C generator with other xor values
OtherProps ==
    [g |-> U32(\H1EDC, \H6F41), i |-> U32(\H0000, \HFFFF), f |-> U32(\H1234, \H5678)]

\* Generators with no constant term: X^32 is not invertible modulo them
EvenProps == [g |-> U32(\H04C1, \H1DB6), i |-> U32(\HFFFF, \HFFFF), f |-> {}]

ZeroProps == [g |-> {}, i |-> {}, f |-> {}]

EngineProps == {DefaultProps, OtherProps, EvenProps, ZeroProps}

Init ==
    /\ engine = NoEngine
    /\ pc = "idle"
    /\ call = NoCall
    /\ ret = NoRet
    /\ ops = <<>>
    /\ moduli = {}

\* CRC32::new(props)
New(props) ==
    /\ pc = "idle"
    /\ engine.tag = "None"
    /\ LET r == new(props)
       IN  /\ engine' = IF IsOk(r) THEN r ELSE engine
           /\ ret' = r
    /\ call' = [op |-> "new", props |-> props]
    /\ ops' = <<"inv_mod">>
    /\ moduli' = new_moduli(props)
    /\ pc' = "returned"

\* engine.checksum(data)
Checksum(data) ==
    /\ pc = "idle"
    /\ IsOk(engine)
    /\ ret' = Ok(checksum(engine.val, data))
    /\ call' = [op |-> "checksum", data |-> data]
    /\ ops' = <<"fast_rem">>
    /\ moduli' = {}
    /\ pc' = "returned"
    /\ UNCHANGED engine

\* engine.compute_suffix(data, target_crc)
ComputeSuffix(data, target_crc) ==
    /\ pc = "idle"
    /\ IsOk(engine)
    /\ ret' = compute_suffix(engine.val, data, target_crc)
    /\ call' = [op |-> "compute_suffix", data |-> data, target_crc |-> target_crc]
    /\ ops' = <<"checksum", "mul", "rem">>
    /\ moduli' = generator_remainder_moduli(engine.val)
    /\ pc' = "returned"
    /\ UNCHANGED engine

\* engine.compute_inserted(data, offset, target_crc)
ComputeInserted(data, offset, target_crc) ==
    /\ pc = "idle"
    /\ IsOk(engine)
    /\ ret' = compute_inserted(engine.val, data, offset, target_crc)
    /\ call' = [op |-> "compute_inserted", data |-> data, offset |-> offset,
                target_crc |-> target_crc]
    /\ ops' = compute_inserted_ops(data, offset)
    /\ moduli' = compute_inserted_moduli(engine.val, data, offset)
    /\ pc' = "returned"
    /\ UNCHANGED engine

\* The bytes of test_fast_rem: 0x421234012430091u64.to_le_bytes()
RemBytes == <<145, 0, 67, 18, 64, 35, 33, 4>>

\* The bytes of test_crc_equivalent: 0x8f3b86b3726f6cu64.to_le_bytes()
CrcBytes == <<108, 111, 114, 179, 134, 59, 143, 0>>

\* engine.fast_rem(data, 0), as the tests of the crate call it
FastRem(data) ==
    /\ pc = "idle"
    /\ IsOk(engine)
    /\ ret' = Ok(fast_rem(engine.val, data, {}))
    /\ call' = [op |-> "fast_rem", data |-> data]
    /\ ops' = <<"fast_rem">>
    /\ moduli' = {}
    /\ pc' = "returned"
    /\ UNCHANGED engine

\* The caller takes the result and is ready for the next call.
Return ==
    /\ pc = "returned"
    /\ pc' = "idle"
    /\ call' = NoCall
    /\ ret' = NoRet
    /\ ops' = <<>>
    /\ moduli' = {}
    /\ UNCHANGED engine

Next ==
    \/ \E props \in EngineProps : New(props)
    \/ \E data \in Data \cup {CrcBytes} : Checksum(data)
    \/ \E data \in Data \cup {RemBytes} : FastRem(data)
    \/ \E data \in Data, t \in Targets : ComputeSuffix(data, t)
    \/ \E data \in Data, t \in Targets :
           \E offset \in 0..(Len(data) + MaxOver) : ComputeInserted(data, offset, t)
    \/ Return

Spec == Init /\ [][Next]_vars

(***************************************************************************)
(* Engine construction alone, over a wider range of generators             *)
(***************************************************************************)

MaxGen == 31

\* Generators taken from published CRC-32 variants, and some chosen by shape
NamedGens ==
    {U32(\H04C1, \H1DB7), U32(\H1EDC, \H6F41), U32(\H04C1, \H1DB6),
     U32(\H8000, \H0001), U32(\H8000, \H0000), U32(\HFFFF, \HFFFF)}

Gens == {Bits(n) : n \in 0..MaxGen} \cup NamedGens

XorValues == {{}, U32(\HFFFF, \HFFFF)}

GenProps == {[g |-> g, i |-> x, f |-> x] : g \in Gens, x \in XorValues}

NextNew ==
    \/ \E props \in GenProps : New(props)
    \/ Return

SpecNew == Init /\ [][NextNew]_vars

(***************************************************************************)
(* The polynomial library (pub mod math) called on its own                 *)
(***************************************************************************)

MaxPoly == 15

\* X^32, the CRC32 generator X^32 + 0x04C11DB7, X^63 + 1 and X^40 + X^3
NamedPolys ==
    {FromNormal64({32}),
     Add(FromNormal64({32}), From32to64(FromNormal32(U32(\H04C1, \H1DB7)))),
     FromNormal64({63, 0}),
     FromNormal64({40, 3})}

\* Polynomial<u64> operands
Polys64 == {FromNormal64(Bits(n)) : n \in 0..MaxPoly} \cup NamedPolys

\* Polynomial<u32> operands
Polys32 ==
    {FromNormal32(Bits(n)) : n \in 0..MaxPoly} \cup {FromNormal32(U32(\H04C1, \H1DB7))}

\* a / b, both Polynomial<u64>
Div(a, b) ==
    /\ pc = "idle"
    /\ ret' = Div64(a, From64to128(b))
    /\ call' = [op |-> "div", a |-> a, b |-> b, bw |-> 64]
    /\ ops' = <<"div">>
    /\ moduli' = {Deg(From64to128(b), 128)}
    /\ pc' = "returned"
    /\ UNCHANGED engine

\* a % b, both Polynomial<u64>
Rem(a, b) ==
    /\ pc = "idle"
    /\ ret' = Rem64(a, b)
    /\ call' = [op |-> "rem", a |-> a, b |-> b, bw |-> 64]
    /\ ops' = <<"rem">>
    /\ moduli' = {Deg(From64to128(b), 128)}
    /\ pc' = "returned"
    /\ UNCHANGED engine

\* a / b, a Polynomial<u64> and b Polynomial<u32>
DivBy32(a, b) ==
    /\ pc = "idle"
    /\ ret' = Div64(a, From32to128(b))
    /\ call' = [op |-> "div", a |-> a, b |-> b, bw |-> 32]
    /\ ops' = <<"div">>
    /\ moduli' = {Deg(From32to128(b), 128)}
    /\ pc' = "returned"
    /\ UNCHANGED engine

\* a % b, a Polynomial<u64> and b Polynomial<u32>
RemBy32(a, b) ==
    /\ pc = "idle"
    /\ ret' = Rem64by32(a, b)
    /\ call' = [op |-> "rem", a |-> a, b |-> b, bw |-> 32]
    /\ ops' = <<"rem">>
    /\ moduli' = {Deg(From32to128(b), 128)}
    /\ pc' = "returned"
    /\ UNCHANGED engine

\* The chain F(0) = 0, F(1) = 1, F(k + 1) = X * F(k) + F(k - 1), in normal
\* representation: dividing F(k + 1) by F(k) leaves F(k - 1), so the loop of
\* inv_mod goes down the chain one degree a pass.  A step takes <<F(k), F(k - 1)>>
\* to <<F(k + 1), F(k)>>.
EuclidChainStep(pair) ==
    <<Xor({i + 1 : i \in pair[1]}, pair[2]), pair[1]>>

RECURSIVE EuclidChainLoop(_, _)
EuclidChainLoop(n, pair) ==
    IF n <= 0 THEN pair
    ELSE IF n = 1 THEN EuclidChainStep(pair)
    ELSE LET k == (n + 3) \div 4
             s1 == EuclidChainLoop(k, pair)
             s2 == EuclidChainLoop(Min(k, n - k), s1)
             s3 == EuclidChainLoop(Min(k, n - 2 * k), s2)
         IN  IF s1 = s1 /\ s2 = s2 /\ s3 = s3 THEN EuclidChainLoop(n - 3 * k, s3)
             ELSE pair

\* <<F(n + 1), F(n)>>
EuclidChain(n) == EuclidChainLoop(n, <<{0}, {}>>)

\* Operands of inv_mod: the operands above and the chain's terms of degree
\* 63, 62 and 61
InvModPolys ==
    Polys64 \cup {FromNormal64(EuclidChain(63)[1]), FromNormal64(EuclidChain(63)[2]),
                  FromNormal64(EuclidChain(62)[2])}

\* p.inv_mod(m)
InvMod(p, m) ==
    /\ pc = "idle"
    /\ ret' = inv_mod(p, m)
    /\ call' = [op |-> "inv_mod", p |-> p, m |-> m]
    /\ ops' = <<"inv_mod">>
    /\ moduli' = inv_mod_moduli(p, m)
    /\ pc' = "returned"
    /\ UNCHANGED engine

\* Polynomial<u128> operands: widened ones, and ones with low-order bits set
Polys128 ==
    {From64to128(p) : p \in Polys64}
        \cup {{i} : i \in {0, 63, 64, 95, 96, 127}}
        \cup {{0, 127}, {63, 64}, {95, 96}, {64, 127}, {100, 101, 127}}

\* The operands of a width
PolysOf(w) == IF w = 128 THEN Polys128 ELSE IF w = 64 THEN Polys64 ELSE Polys32

\* The pairs of widths a conversion exists between
Narrowings == {<<128, 64>>, <<128, 32>>, <<64, 32>>}

Widenings == {<<64, 128>>, <<32, 128>>, <<32, 64>>}

\* value.try_into(), from a wider to a narrower polynomial
Narrow(value, from, to) ==
    /\ pc = "idle"
    /\ ret' = TryFromWidth(value, from, to)
    /\ call' = [op |-> "narrow", value |-> value, from |-> from, to |-> to]
    /\ ops' = <<>>
    /\ moduli' = {}
    /\ pc' = "returned"
    /\ UNCHANGED engine

\* value.into(), from a narrower to a wider polynomial
Widen(value, from, to) ==
    /\ pc = "idle"
    /\ ret' = Ok(FromWidth(value, from, to))
    /\ call' = [op |-> "widen", value |-> value, from |-> from, to |-> to]
    /\ ops' = <<>>
    /\ moduli' = {}
    /\ pc' = "returned"
    /\ UNCHANGED engine

\* Operands of the products: the operands above, those of test_simple_mul,
\* and polynomials of the highest degree of their width
MulPolys(w) ==
    IF w = 32
    THEN Polys32 \cup {FromNormal32(U32(\H3429, \H182A)), FromNormal32(0..31),
                       FromNormal32({31})}
    ELSE Polys64 \cup {FromNormal64(0..63)}

MulWidths == {<<32, 32>>, <<32, 64>>, <<64, 32>>, <<64, 64>>}

\* a * b
Mul(a, b, aw, bw) ==
    /\ pc = "idle"
    /\ ret' = MulWidth(a, b, aw, bw)
    /\ call' = [op |-> "mul", a |-> a, b |-> b, aw |-> aw, bw |-> bw]
    /\ ops' = <<"mul">>
    /\ moduli' = {}
    /\ pc' = "returned"
    /\ UNCHANGED engine

NextMath ==
    \/ \E w \in MulWidths : \E a \in MulPolys(w[1]), b \in MulPolys(w[2]) :
           Mul(a, b, w[1], w[2])
    \/ \E w \in Narrowings : \E value \in PolysOf(w[1]) : Narrow(value, w[1], w[2])
    \/ \E w \in Widenings : \E value \in PolysOf(w[1]) : Widen(value, w[1], w[2])
    \/ \E a \in Polys64, b \in Polys64 : Div(a, b)
    \/ \E a \in Polys64, b \in Polys64 : Rem(a, b)
    \/ \E a \in Polys64, b \in Polys32 : DivBy32(a, b)
    \/ \E a \in Polys64, b \in Polys32 : RemBy32(a, b)
    \/ \E p \in InvModPolys, m \in InvModPolys : InvMod(p, m)
    \/ Return

SpecMath == Init /\ [][NextMath]_vars
(***************************************************************************)
(* Reference definitions the properties are stated against                 *)
(***************************************************************************)

\* The customary bit-at-a-time reflected CRC-32 (polynomial 0xEDB88320)
RefCrcBit(crc) ==
    IF 0 \in crc THEN Xor(Shr(crc, 1), U32(\HEDB8, \H8320)) ELSE Shr(crc, 1)

RefCrcByte(st) ==
    LET c0 == Xor(st.crc, Bits(Head(st.data)))
        c1 == RefCrcBit(c0)
        c2 == RefCrcBit(c1)
        c3 == RefCrcBit(c2)
        c4 == RefCrcBit(c3)
        c5 == RefCrcBit(c4)
        c6 == RefCrcBit(c5)
        c7 == RefCrcBit(c6)
    IN  IF c1 = c1 /\ c2 = c2 /\ c3 = c3 /\ c4 = c4 /\ c5 = c5 /\ c6 = c6 /\ c7 = c7
        THEN [crc |-> RefCrcBit(c7), data |-> Tail(st.data)]
        ELSE st

RECURSIVE RefCrcBytes(_, _)
RefCrcBytes(n, st) ==
    IF n <= 0 THEN st
    ELSE IF n = 1 THEN RefCrcByte(st)
    ELSE LET k == (n + 3) \div 4
             s1 == RefCrcBytes(k, st)
             s2 == RefCrcBytes(Min(k, n - k), s1)
             s3 == RefCrcBytes(Min(k, n - 2 * k), s2)
         IN  IF s1 = s1 /\ s2 = s2 /\ s3 = s3 THEN RefCrcBytes(n - 3 * k, s3) ELSE st

RefCrc32(data) ==
    Xor(RefCrcBytes(Len(data), [crc |-> U32(\HFFFF, \HFFFF), data |-> data]).crc,
        U32(\HFFFF, \HFFFF))

\* A polynomial over GF(2) as the set of the exponents of its terms
PolyOf64(v) == {63 - i : i \in v}

PolyOf32(v) == {31 - i : i \in v}

RefDeg(a) == CHOOSE i \in a : \A j \in a : j <= i

RefAdd(a, b) == {i \in a \cup b : ~(i \in a /\ i \in b)}

RefMul(a, b) ==
    IF a = {} \/ b = {} THEN {}
    ELSE {k \in 0..(RefDeg(a) + RefDeg(b)) :
             Cardinality({i \in a : (k - i) \in b}) % 2 = 1}

\* a mod b, for b # 0
RECURSIVE RefMod(_, _)
RefMod(a, b) ==
    IF a = {} THEN a
    ELSE IF RefDeg(a) < RefDeg(b) THEN a
    ELSE RefMod(RefAdd(a, {i + (RefDeg(a) - RefDeg(b)) : i \in b}), b)

RECURSIVE RefGcd(_, _)
RefGcd(a, b) == IF b = {} THEN a ELSE RefGcd(b, RefMod(a, b))

Returned(op) == pc = "returned" /\ call.op = op

\* data with patch put in so that it starts at byte index pos
Splice(data, pos, patch) ==
    SubSeq(data, 1, pos) \o patch \o SubSeq(data, pos + 1, Len(data))

(***************************************************************************)
(* Properties                                                              *)
(***************************************************************************)

\* C1: with the standard parameters checksum(d) is the reference reflected
\* CRC32 of d for every d, also for d shorter than 4 bytes; checksum("") = 0,
\* checksum("a") = 0xE8B7BE43 and checksum("hello, world!") = 0x58988D13.
C1_ChecksumIsCrc32 ==
    (Returned("checksum") /\ engine.val.props = DefaultProps) =>
        /\ IsOk(ret)
        /\ ret.val = RefCrc32(call.data)
        /\ call.data = <<>> => ret.val = {}
        /\ call.data = LetterA => ret.val = U32(\HE8B7, \HBE43)
        /\ call.data = Hello => ret.val = U32(\H5898, \H8D13)

C1_Witness ==
    /\ Returned("checksum")
    /\ engine.val.props = DefaultProps
    /\ call.data = LetterA
    /\ ret.val = U32(\HE8B7, \HBE43)

\* C2: for every engine, every d and every target t,
\* checksum(d ++ compute_suffix(d, t)) = t.
C2_SuffixRoundTrip ==
    Returned("compute_suffix") =>
        /\ IsOk(ret)
        /\ checksum(engine.val, call.data \o ret.val) = call.target_crc

C2_Witness ==
    /\ Returned("compute_suffix")
    /\ engine.val.props = OtherProps
    /\ Len(call.data) \in 1..3
    /\ IsOk(ret)
    /\ checksum(engine.val, call.data \o ret.val) = call.target_crc

\* C3: for every d, every offset in 0..len(d) and every target t, the checksum
\* of d[..offset] ++ compute_inserted(d, offset, t) ++ d[offset..] is t.
C3_InsertRoundTripFromStart ==
    (Returned("compute_inserted") /\ call.offset <= Len(call.data)) =>
        /\ IsOk(ret)
        /\ checksum(engine.val,
                    SubSeq(call.data, 1, call.offset) \o ret.val
                        \o SubSeq(call.data, call.offset + 1, Len(call.data)))
               = call.target_crc

C3_Witness ==
    /\ Returned("compute_inserted")
    /\ call.data = Lorem
    /\ call.offset = 8
    /\ IsOk(ret)
    /\ checksum(engine.val, Splice(Lorem, 8, ret.val)) = call.target_crc

\* C4 as stated: the patch of compute_inserted(d, offset, t) spliced at byte
\* position len(d) - offset, so that offset bytes of d follow it, gives checksum t.
C4_Original ==
    (Returned("compute_inserted") /\ call.offset <= Len(call.data) /\ IsOk(ret)) =>
        checksum(engine.val,
                 Splice(call.data, Len(call.data) - call.offset, ret.val))
            = call.target_crc

\* C4 amended: the patch of compute_inserted(d, offset, t) spliced at byte
\* position offset, so that len(d) - offset bytes of d follow it, gives checksum t.
C4_InsertRoundTripTrailing ==
    (Returned("compute_inserted") /\ call.offset <= Len(call.data) /\ IsOk(ret)) =>
        LET trailing == Len(call.data) - call.offset
        IN  checksum(engine.val,
                     Splice(call.data, Len(call.data) - trailing, ret.val))
                = call.target_crc

C4_Witness ==
    /\ Returned("compute_inserted")
    /\ call.data = Lorem
    /\ call.offset = 2
    /\ IsOk(ret)
    /\ checksum(engine.val, Splice(Lorem, 2, ret.val)) = call.target_crc
    /\ checksum(engine.val, Splice(Lorem, 9, ret.val)) # call.target_crc

\* C5: for offset > len(d), compute_inserted returns the overflow error and no
\* patch, before any polynomial arithmetic is done.
C5_OffsetBoundary ==
    (Returned("compute_inserted") /\ call.offset > Len(call.data)) =>
        /\ ret.tag = "Err"
        /\ ret.err = "OverflowError"
        /\ ret.val = {}
        /\ ops = <<>>

C5_Witness ==
    /\ Returned("compute_inserted")
    /\ Len(call.data) > 0
    /\ call.offset = Len(call.data) + 1
    /\ ret.tag = "Err"

\* C6: for every offset in 0..len(d), compute_inserted returns Ok with one
\* patch of 4 bytes: no unwrap inside it fails, also for offset = len(d).
C6_InsertedTotal ==
    (Returned("compute_inserted") /\ call.offset <= Len(call.data)) =>
        /\ ret.tag = "Ok"
        /\ Len(ret.val) = 4
        /\ \A k \in 1..4 : ret.val[k] \in 0..255

C6_Witness ==
    /\ Returned("compute_inserted")
    /\ Len(call.data) > 0
    /\ call.offset = Len(call.data)
    /\ ret.tag = "Ok"
    /\ Len(ret.val) = 4

\* C7: CRC32::new fails only with NonInvertibleError and only when X^32 has
\* no inverse modulo G = X^32 + g; otherwise it returns an engine whose xn_inv
\* fits in 32 bits and satisfies (X^32 * xn_inv) mod G = 1.
C7_NewInvertsXn ==
    Returned("new") =>
        LET G == RefAdd({32}, PolyOf32(FromNormal32(call.props.g)))
            invertible == RefGcd({32}, G) = {0}
        IN  /\ ret.tag \in {"Ok", "Err"}
            /\ ret.tag = "Err" => (ret.err = "NonInvertibleError" /\ ~invertible)
            /\ invertible <=> 0 \in call.props.g
            /\ ret.tag = "Ok" =>
                  /\ ret.val.xn_inv \subseteq 0..31
                  /\ RefMod(RefMul({32}, PolyOf32(ret.val.xn_inv)), G) = {0}
                  /\ ret.val.g = FromNormal64(G)

C7_Witness ==
    /\ Returned("new")
    /\ call.props.g = U32(\H1EDC, \H6F41)
    /\ ret.tag = "Ok"
    /\ RefMod(RefMul({32}, PolyOf32(ret.val.xn_inv)),
              RefAdd({32}, PolyOf32(FromNormal32(call.props.g)))) = {0}

\* C8 as stated: whenever p.inv_mod(m) returns Ok(v), (p * v) mod m = 1 and
\* deg v < deg m, for every p and every modulus m.
C8_Original ==
    (Returned("inv_mod") /\ IsOk(ret)) =>
        LET P == PolyOf64(call.p)
            M == PolyOf64(call.m)
            V == PolyOf64(ret.val)
        IN  /\ M # {}
            /\ RefMod(RefMul(P, V), M) = {0}
            /\ V # {} /\ RefDeg(V) < RefDeg(M)

\* C8 amended: whenever p.inv_mod(m) returns Ok(v) for a modulus m of degree at
\* least 1, (p * v) mod m = 1 and deg v < deg m; the inverse of X^32 modulo
\* X^32 + 0x04C11DB7 is 0xCBF1ACDA.
C8_InverseCorrect ==
    (Returned("inv_mod") /\ IsOk(ret)) =>
        LET P == PolyOf64(call.p)
            M == PolyOf64(call.m)
            V == PolyOf64(ret.val)
        IN  /\ M # {}
            /\ RefDeg(M) >= 1 =>
                  /\ RefMod(RefMul(P, V), M) = {0}
                  /\ V # {} /\ RefDeg(V) < RefDeg(M)
            /\ (P = {32} /\ M = RefAdd({32}, PolyOf32(FromNormal32(DefaultProps.g)))) =>
                  ret.val = FromNormal64(U32(\HCBF1, \HACDA))

C8_Witness ==
    /\ Returned("inv_mod")
    /\ call.p = FromNormal64({32})
    /\ PolyOf64(call.m) = RefAdd({32}, PolyOf32(FromNormal32(DefaultProps.g)))
    /\ IsOk(ret)
    /\ ret.val = FromNormal64(U32(\HCBF1, \HACDA))

\* C9: for a modulus m of degree at least 1, p.inv_mod(m) returns
\* NonInvertibleError exactly when gcd(p, m) # 1, and Ok when gcd(p, m) = 1.
C9_NonInvertibleIffGcd ==
    Returned("inv_mod") =>
        LET P == PolyOf64(call.p)
            M == PolyOf64(call.m)
        IN  (M # {} /\ RefDeg(M) >= 1) =>
              /\ (ret.tag = "Err" /\ ret.err = "NonInvertibleError")
                     <=> RefGcd(P, M) # {0}
              /\ ret.tag = "Ok" <=> RefGcd(P, M) = {0}

C9_Witness ==
    /\ Returned("inv_mod")
    /\ RefDeg(PolyOf64(call.m) \cup {0}) >= 1
    /\ RefMod(PolyOf64(call.p), PolyOf64(call.m)) = {0}
    /\ PolyOf64(call.p) # {0}
    /\ ret.tag = "Ok"

\* The quotient and the remainder of the call's operands, as Results
QuotientOf(c) ==
    IF c.bw = 64 THEN Div64(c.a, From64to128(c.b)) ELSE Div64(c.a, From32to128(c.b))

RemainderOf(c) ==
    IF c.bw = 64 THEN Rem64(c.a, c.b)
    ELSE Then(Rem64by32(c.a, c.b), LAMBDA r : Ok(From32to64(r)))

DivisorOf(c) == IF c.bw = 64 THEN c.b ELSE From32to64(c.b)

\* q * b + r = a, and r = 0 or deg r < deg b
Euclidean(c) ==
    LET q == QuotientOf(c)
        r == RemainderOf(c)
        b == DivisorOf(c)
    IN  /\ IsOk(q)
        /\ IsOk(r)
        /\ Add(Mul64(q.val, b), From64to128(r.val)) = From64to128(c.a)
        /\ r.val = {} \/ Deg(r.val, 64) < Deg(b, 64)

\* C10 as stated: for every a and every nonzero b, the constant 1 included,
\* q = a / b and r = a % b satisfy q * b + r = a, and r = 0 or deg r < deg b.
C10_Original ==
    ((Returned("div") \/ Returned("rem")) /\ call.b # {}) =>
        /\ ret = (IF call.op = "div" THEN QuotientOf(call)
                  ELSE IF call.bw = 64 THEN Rem64(call.a, call.b)
                  ELSE Rem64by32(call.a, call.b))
        /\ Euclidean(call)

\* C10 amended: for every a and every b of degree at least 1, q = a / b and
\* r = a % b satisfy q * b + r = a, and r = 0 or deg r < deg b.
C10_EuclideanDivision ==
    ((Returned("div") \/ Returned("rem")) /\ Deg(DivisorOf(call), 64) >= 1) =>
        LET q == IF call.op = "div" THEN ret ELSE QuotientOf(call)
            r == IF call.op = "rem" /\ call.bw = 64 THEN ret
                 ELSE IF call.op = "rem"
                 THEN Then(ret, LAMBDA x : Ok(From32to64(x)))
                 ELSE RemainderOf(call)
            b == DivisorOf(call)
        IN  /\ IsOk(q)
            /\ IsOk(r)
            /\ Add(Mul64(q.val, b), From64to128(r.val)) = From64to128(call.a)
            /\ r.val = {} \/ Deg(r.val, 64) < Deg(b, 64)

C10_Witness ==
    /\ Returned("div")
    /\ call.bw = 32
    /\ Deg(call.a, 64) = 63
    /\ Deg(call.b, 32) = 26
    /\ IsOk(ret)
    /\ ret.val # {}
    /\ Euclidean(call)

\* The table entry of index i as a polynomial: the byte i read as a reflected
\* polynomial of degree at most 7, times X^32, modulo G = X^32 + g, in the
\* reflected 32-bit representation.
RefTableEntry(i, g) ==
    LET G == RefAdd({32}, PolyOf32(FromNormal32(g)))
        P == {(7 - j) + 32 : j \in Bits(i)}
    IN  {31 - e : e \in RefMod(P, G)}

\* Entry i of the published CRC32 table: 8 bit steps with 0xEDB88320
RefCanonicalEntry(i) ==
    LET c0 == Bits(i)
        c1 == RefCrcBit(c0)
        c2 == RefCrcBit(c1)
        c3 == RefCrcBit(c2)
        c4 == RefCrcBit(c3)
        c5 == RefCrcBit(c4)
        c6 == RefCrcBit(c5)
        c7 == RefCrcBit(c6)
    IN  IF c1 = c1 /\ c2 = c2 /\ c3 = c3 /\ c4 = c4 /\ c5 = c5 /\ c6 = c6 /\ c7 = c7
        THEN RefCrcBit(c7)
        ELSE c0

\* C11: the table built by CRC32::new has 256 entries, entry i being the
\* remainder left by 8 one-bit reflected division steps of i by the generator;
\* for the generator 0x04C11DB7 it is the published CRC32 table, with
\* table[0] = 0, table[1] = 0x77073096 and table[255] = 0x2D02EF8D.
C11_TableFidelity ==
    (Returned("new") /\ IsOk(ret)) =>
        LET table == ret.val.table
        IN  /\ DOMAIN table = 0..255
            /\ \A i \in 0..255 : table[i] = RefTableEntry(i, call.props.g)
            /\ call.props.g = U32(\H04C1, \H1DB7) =>
                  /\ \A i \in 0..255 : table[i] = RefCanonicalEntry(i)
                  /\ table[0] = {}
                  /\ table[1] = U32(\H7707, \H3096)
                  /\ table[2] = U32(\HEE0E, \H612C)
                  /\ table[128] = U32(\HEDB8, \H8320)
                  /\ table[255] = U32(\H2D02, \HEF8D)

C11_Witness ==
    /\ Returned("new")
    /\ IsOk(ret)
    /\ call.props.g = U32(\H04C1, \H1DB7)
    /\ ret.val.table[1] = U32(\H7707, \H3096)
    /\ ret.val.table[255] = U32(\H2D02, \HEF8D)

\* C12: with the standard parameters, for every d the checksum of d followed
\* by the 4 little-endian bytes of checksum(d) does not depend on d: it is
\* checksum([0, 0, 0, 0]), the CRC32 residue 0x2144DF1C.
C12_Residue ==
    (Returned("checksum") /\ engine.val.props = DefaultProps) =>
        LET c == to_le_bytes(ret.val)
            residue == checksum(engine.val, call.data \o c)
        IN  /\ residue = checksum(engine.val, <<0, 0, 0, 0>>)
            /\ residue = U32(\H2144, \HDF1C)

C12_Witness ==
    /\ Returned("checksum")
    /\ engine.val.props = DefaultProps
    /\ call.data = Lorem
    /\ checksum(engine.val, Lorem \o to_le_bytes(ret.val))
           = checksum(engine.val, <<0, 0, 0, 0>>)

\* The 32-bit value whose little-endian bytes are the 4 bytes given
RefFromLeBytes(bytes) == UNION {{8 * (k - 1) + j : j \in Bits(bytes[k])} : k \in 1..4}

\* The 4-byte suffix that holds the 32-bit value v
RefSuffixOf(v) == [k \in 1..4 |-> ByteVal(Shr(v, 8 * (k - 1)))]

\* The sum (XOR) of a set of at most 32 values, taken bit by bit
RefSum(values) == {i \in 0..31 : Cardinality({v \in values : i \in v}) % 2 = 1}

\* Gaussian elimination over GF(2): one pass clears bit st.k from all the
\* vectors but a pivot, which it takes out and counts.
RefElimStep(st) ==
    LET withk == {v \in st.vs : st.k \in v}
    IN  IF withk = {} THEN [st EXCEPT !.k = @ + 1]
        ELSE LET pv == CHOOSE v \in withk : TRUE
             IN  [vs |-> {IF st.k \in v THEN Xor(v, pv) ELSE v : v \in st.vs \ {pv}},
                  k |-> st.k + 1,
                  rank |-> st.rank + 1]

RECURSIVE RefElimLoop(_, _)
RefElimLoop(n, st) ==
    IF n <= 0 THEN st
    ELSE IF n = 1 THEN RefElimStep(st)
    ELSE LET k == (n + 3) \div 4
             s1 == RefElimLoop(k, st)
             s2 == RefElimLoop(Min(k, n - k), s1)
             s3 == RefElimLoop(Min(k, n - 2 * k), s2)
         IN  IF s1 = s1 /\ s2 = s2 /\ s3 = s3 THEN RefElimLoop(n - 3 * k, s3) ELSE st

\* The rank of a set of 32-bit vectors over GF(2)
RefRank(vs) == RefElimLoop(32, [vs |-> vs, k |-> 0, rank |-> 0]).rank

\* Suffixes the map from suffix to checksum is followed on
Suffixes ==
    {<<0, 0, 0, 0>>, <<1, 0, 0, 0>>, <<0, 0, 0, 128>>, <<255, 255, 255, 255>>,
     <<100, 0, 100, 7>>, <<222, 173, 190, 239>>}

\* C13: for every engine and every d, the map from a 4-byte suffix s to
\* checksum(d ++ s) is a bijection on 32-bit values: it is affine over GF(2)
\* with a linear part of rank 32, and compute_suffix(d, .) is its inverse on
\* both sides, so compute_suffix(d, t) is the only s with checksum(d ++ s) = t
\* and distinct targets give distinct suffixes.
C13_SuffixBijection ==
    /\ Returned("checksum") =>
          LET e == engine.val
              d == call.data
              base == checksum(e, d \o <<0, 0, 0, 0>>)
              image == [n \in 0..31 |-> Xor(checksum(e, d \o RefSuffixOf({n})), base)]
          IN  /\ RefRank({image[n] : n \in 0..31}) = 32
              /\ \A s \in Suffixes :
                    /\ checksum(e, d \o s)
                          = Xor(base, RefSum({image[n] : n \in RefFromLeBytes(s)}))
                    /\ compute_suffix(e, d, checksum(e, d \o s)) = Ok(s)
    /\ Returned("compute_suffix") =>
          LET e == engine.val
              d == call.data
          IN  /\ IsOk(ret)
              /\ checksum(e, d \o ret.val) = call.target_crc
              /\ \A s \in Suffixes :
                    checksum(e, d \o s) = call.target_crc => s = ret.val
              /\ \A t \in Targets \ {call.target_crc} :
                    compute_suffix(e, d, t) # ret

C13_Witness ==
    /\ Returned("compute_suffix")
    /\ call.data = Lorem
    /\ IsOk(ret)
    /\ compute_suffix(engine.val, Lorem,
                      checksum(engine.val, Lorem \o <<222, 173, 190, 239>>))
           = Ok(<<222, 173, 190, 239>>)
    /\ \E t \in Targets : compute_suffix(engine.val, Lorem, t) # ret

\* C14 as stated: compute_inserted(d, 0, t) returns Ok with the 4 bytes of
\* compute_suffix(d, t), the patch being a pure suffix, and with
\* offset = len(d) the patch is a pure prefix.
C14_Original ==
    Returned("compute_inserted") =>
        /\ call.offset = 0 =>
              /\ IsOk(ret)
              /\ ret = compute_suffix(engine.val, call.data, call.target_crc)
        /\ call.offset = Len(call.data) =>
              /\ IsOk(ret)
              /\ checksum(engine.val, ret.val \o call.data) = call.target_crc

\* C14 amended: compute_inserted(d, len(d), t) returns Ok with the 4 bytes of
\* compute_suffix(d, t), the patch being a pure suffix, and with offset = 0
\* the patch is a pure prefix.
C14_PureSuffixAtLen ==
    Returned("compute_inserted") =>
        /\ call.offset = Len(call.data) =>
              /\ IsOk(ret)
              /\ ret = compute_suffix(engine.val, call.data, call.target_crc)
              /\ checksum(engine.val, call.data \o ret.val) = call.target_crc
        /\ call.offset = 0 =>
              /\ IsOk(ret)
              /\ checksum(engine.val, ret.val \o call.data) = call.target_crc

C14_Witness ==
    /\ Returned("compute_inserted")
    /\ call.data = Lorem
    /\ call.offset = Len(Lorem)
    /\ IsOk(ret)
    /\ ret = compute_suffix(engine.val, Lorem, call.target_crc)
    /\ ret # compute_inserted(engine.val, Lorem, 0, call.target_crc)

\* C15: a narrowing conversion returns OverflowError exactly when a bit below
\* the retained high-order bits of the stored value is set, and otherwise the
\* retained bits (the same polynomial); a widening conversion always succeeds,
\* puts the value in the high-order bits over zero low-order bits, keeps
\* deg(), and narrowing its result gives the polynomial it started from.
C15_WidthConversions ==
    /\ Returned("narrow") =>
          LET dropped == call.from - call.to
              lost == \E i \in call.value : i < dropped
          IN  /\ ret.tag \in {"Ok", "Err"}
              /\ ret.tag = "Err" <=> lost
              /\ ret.tag = "Err" => ret.err = "OverflowError"
              /\ ret.tag = "Ok" =>
                    /\ ret.val = {i - dropped : i \in call.value}
                    /\ ret.val \subseteq 0..(call.to - 1)
                    /\ {call.to - 1 - i : i \in ret.val}
                          = {call.from - 1 - i : i \in call.value}
    /\ Returned("widen") =>
          LET added == call.to - call.from
          IN  /\ ret.tag = "Ok"
              /\ ret.val = {i + added : i \in call.value}
              /\ ret.val \subseteq added..(call.to - 1)
              /\ Deg(ret.val, call.to) = Deg(call.value, call.from)
              /\ TryFromWidth(ret.val, call.to, call.from) = Ok(call.value)

C15_Witness ==
    /\ Returned("narrow")
    /\ call.from = 128
    /\ call.to = 32
    /\ call.value = {95, 96}
    /\ ret = Err("OverflowError")

\* The polynomial a stored value of w bits stands for
RefPoly(v, w) == {w - 1 - i : i \in v}

\* C16: for operands of 32x32, 32x64 and 64x64 bits a * b is the carry-less
\* product of a and b, whole, in 64 bits for 32x32 and in 128 bits otherwise:
\* deg(a * b) = deg(a) + deg(b) for nonzero a and b, a * b and b * a are the
\* same polynomial, and the unwrap inside the 32x32 product never fails.
C16_Multiplication ==
    Returned("mul") =>
        LET A == RefPoly(call.a, call.aw)
            B == RefPoly(call.b, call.bw)
            w == IF call.aw = 32 /\ call.bw = 32 THEN 64 ELSE 128
            swapped == MulWidth(call.b, call.a, call.bw, call.aw)
        IN  /\ ret.tag = "Ok"
            /\ ret.val \subseteq 0..(w - 1)
            /\ RefPoly(ret.val, w) = RefMul(A, B)
            /\ (A # {} /\ B # {}) =>
                  Deg(ret.val, w) = Deg(call.a, call.aw) + Deg(call.b, call.bw)
            /\ swapped.tag = "Ok"
            /\ RefPoly(swapped.val, w) = RefPoly(ret.val, w)
            /\ (call.aw = 32 /\ call.a = FromNormal32(U32(\H04C1, \H1DB7))
                  /\ call.b = (IF call.bw = 32 THEN FromNormal32(U32(\H3429, \H182A))
                                ELSE FromNormal64({32}))) =>
                  ret.val = (IF call.bw = 32
                             THEN FromNormal64({i + 32 : i \in U32(\H00C7, \H8C9B)}
                                                   \cup U32(\HA470, \HA836))
                             ELSE FromNormal128({i + 32 : i \in U32(\H04C1, \H1DB7)}))

C16_Witness ==
    /\ Returned("mul")
    /\ call.aw = 32
    /\ call.bw = 32
    /\ call.a = FromNormal32(U32(\H04C1, \H1DB7))
    /\ call.b = FromNormal32(U32(\H3429, \H182A))
    /\ ret = Ok(FromNormal64({i + 32 : i \in U32(\H00C7, \H8C9B)}
                                \cup U32(\HA470, \HA836)))

\* One step of long division: the leading term of a is cancelled with b
RefRemStep(a, b) ==
    IF a = {} THEN a
    ELSE IF RefDeg(a) < RefDeg(b) THEN a
    ELSE RefAdd(a, {i + (RefDeg(a) - RefDeg(b)) : i \in b})

RECURSIVE RefRemLoop(_, _, _)
RefRemLoop(n, st, b) ==
    IF n <= 0 THEN st
    ELSE IF n = 1 THEN RefRemStep(st, b)
    ELSE LET k == (n + 3) \div 4
             s1 == RefRemLoop(k, st, b)
             s2 == RefRemLoop(Min(k, n - k), s1, b)
             s3 == RefRemLoop(Min(k, n - 2 * k), s2, b)
         IN  IF s1 = s1 /\ s2 = s2 /\ s3 = s3 THEN RefRemLoop(n - 3 * k, s3, b) ELSE st

\* a mod b for b # 0, for a of any degree
RefRem(a, b) == RefRemLoop(IF a = {} THEN 0 ELSE RefDeg(a) + 1, a, b)

\* The polynomial of a byte sequence: the first byte holds the highest-degree
\* coefficients, and in a byte bit 0 holds the highest-degree coefficient.
RefDataPoly(data) ==
    UNION {{8 * (Len(data) - k) + (7 - j) : j \in Bits(data[k])} : k \in 1..Len(data)}

\* The full generator of an engine
RefGenerator(e) == RefAdd({32}, PolyOf32(FromNormal32(e.props.g)))

\* The u64 whose little-endian bytes are the 8 bytes given
RefWordOf(data) == UNION {{8 * (k - 1) + j : j \in Bits(data[k])} : k \in 1..8}

\* C17: for every d of any length, also of 0 to 3 bytes, fast_rem(d, 0) is the
\* reflected 32-bit representation of (polynomial of d) mod G; for 8 bytes it
\* is the value of the polynomial remainder the tests compare it with.
C17_FastRemIsRemainder ==
    Returned("fast_rem") =>
        /\ IsOk(ret)
        /\ ret.val = {31 - x : x \in RefRem(RefDataPoly(call.data),
                                             RefGenerator(engine.val))}
        /\ Len(call.data) = 8 =>
              Ok(ret.val) = Then(Rem64(FromReverse(RefWordOf(call.data)), engine.val.g),
                                 LAMBDA r : TryFrom64to32(r))

C17_Witness ==
    /\ Returned("fast_rem")
    /\ Len(call.data) = 2
    /\ call.data[1] # 0
    /\ ret.val = {31 - x : x \in RefDataPoly(call.data)}

\* The reflected 32-bit representation of a polynomial of degree below 32
RefReflect32(a) == {31 - x : x \in a}

\* C18: checksum(d) = ((poly(d) * X^32) mod G) + ((I * X^(8 * len(d))) mod G) + F
\* with + being XOR and X^(8 * len(d)) mod G obtained with pow, for every d,
\* those of at least 4 bytes included; for 8 bytes it is the value the tests
\* compute with the polynomial operators.
C18_ChecksumIsPolynomial ==
    Returned("checksum") =>
        LET e == engine.val
            d == call.data
            G == RefGenerator(e)
            I == PolyOf32(FromReverse(e.props.i))
            F == FromReverse(e.props.f)
            xm == pow(FromNormal64({1}), 8 * Len(d), e.g)
            shifted == RefRem({x + 32 : x \in RefDataPoly(d)}, G)
            init == RefRem(RefMul(I, PolyOf64(xm.val)), G)
        IN  /\ IsOk(ret)
            /\ IsOk(xm)
            /\ PolyOf64(xm.val) = RefRem({8 * Len(d)}, G)
            /\ ret.val = Xor(Xor(RefReflect32(shifted), RefReflect32(init)), F)
            /\ Len(d) = 8 =>
                  LET cp == Then(Rem128by64(Mul64(FromReverse(RefWordOf(d)),
                                                  FromNormal64({32})), e.g),
                                 LAMBDA r : TryFrom64to32(r))
                      ip == Then(Rem128by64(Mul32by64(FromReverse(e.props.i), xm.val),
                                            e.g),
                                 LAMBDA r : TryFrom64to32(r))
                  IN  /\ IsOk(cp)
                      /\ IsOk(ip)
                      /\ ret.val = Add(Add(cp.val, ip.val), F)

C18_Witness ==
    /\ Returned("checksum")
    /\ call.data = CrcBytes
    /\ engine.val.props = DefaultProps
    /\ ret.val = Xor(Xor(RefReflect32(RefRem({x + 32 : x \in RefDataPoly(CrcBytes)},
                                              RefGenerator(engine.val))),
                          RefReflect32(RefRem({x + 64 : x \in 0..31},
                                              RefGenerator(engine.val)))),
                      U32(\HFFFF, \HFFFF))

\* C19 as stated: in CRC32::new with the standard generator, in checksum, in
\* compute_suffix and in compute_inserted with an offset in range, offset =
\* len(d) included, every / and % has a modulus of degree at least 1: never
\* the zero polynomial, never the constant 1.
C19_NoConstantModulus ==
    LET proper == \A m \in moduli : m >= 1
        standard == IsOk(engine) /\ engine.val.props.g = DefaultProps.g
    IN  /\ (Returned("new") /\ call.props.g = DefaultProps.g) => proper
        /\ (Returned("checksum") /\ standard) => proper
        /\ (Returned("compute_suffix") /\ standard) => proper
        /\ (Returned("compute_inserted") /\ standard
              /\ call.offset <= Len(call.data)) => proper

\* The solved suffix polynomial S = ((C' + F) * xn_inv) mod G + C + F
RefSuffixPoly(e, d, t) ==
    LET C == PolyOf32(checksum(e, d))
        Cp == PolyOf32(t)
        F == PolyOf32(e.props.f)
    IN  RefAdd(RefAdd(RefRem(RefMul(RefAdd(Cp, F), PolyOf32(e.xn_inv)),
                             RefGenerator(e)), C), F)

\* The normal 32-bit representation of a polynomial: bit i is the term X^i
RefNormal32(a) == a

\* C20 as stated: the 4 bytes of compute_suffix(d, t) are the little-endian
\* encoding of the normal representation (most significant bit = highest
\* degree) of S = ((C' + F) * xn_inv) mod G + C + F.
C20_Original ==
    Returned("compute_suffix") =>
        /\ IsOk(ret)
        /\ ret.val = RefSuffixOf(RefNormal32(RefSuffixPoly(engine.val, call.data,
                                                           call.target_crc)))

\* C20 amended: the 4 bytes of compute_suffix(d, t) are the little-endian
\* encoding of the stored, bit-reflected representation (least significant
\* bit = highest degree) of S = ((C' + F) * xn_inv) mod G + C + F.
C20_PatchEncoding ==
    Returned("compute_suffix") =>
        /\ IsOk(ret)
        /\ ret.val = RefSuffixOf(RefReflect32(RefSuffixPoly(engine.val, call.data,
                                                            call.target_crc)))

C20_Witness ==
    /\ Returned("compute_suffix")
    /\ call.data = Lorem
    /\ call.target_crc = U32(\H4242, \H4242)
    /\ IsOk(ret)
    /\ RefFromLeBytes(ret.val)
          = RefReflect32(RefSuffixPoly(engine.val, Lorem, call.target_crc))
    /\ RefFromLeBytes(ret.val)
          # RefNormal32(RefSuffixPoly(engine.val, Lorem, call.target_crc))

\* What the loop of p.inv_mod(m) has returned after n passes, NoReturn when
\* it is still running
RefReturnedWithin(n, p, m) ==
    LET b == Rem64(p, m)
    IN  IF IsOk(b) THEN InvModLoop(n, InvModEntry(m, b.val), m).out ELSE b

\* C21: for every pair of 64-bit operands, p = 0, p congruent to 1 and moduli
\* of degree 0 (and the modulus 0) included, p.inv_mod(m) returns Ok or
\* NonInvertibleError, never panics, and its loop returns within 64 passes,
\* the width of the operands.
C21_InvModTerminates ==
    Returned("inv_mod") =>
        /\ ret # NoReturn
        /\ ret # Panic
        /\ ret.tag \in {"Ok", "Err"}
        /\ ret.tag = "Err" => ret.err = "NonInvertibleError"
        /\ RefReturnedWithin(64, call.p, call.m) = ret

C21_Witness ==
    /\ Returned("inv_mod")
    /\ PolyOf64(call.m) = EuclidChain(63)[1]
    /\ PolyOf64(call.p) = EuclidChain(63)[2]
    /\ RefDeg(PolyOf64(call.m)) = 63
    /\ IsOk(ret)
    /\ RefReturnedWithin(61, call.p, call.m) = NoReturn
    /\ RefReturnedWithin(62, call.p, call.m) = ret
====
